---------------------------- MODULE Spec2Model ----------------------------
(***************************************************************************)
(* Thompson sampling experiment (class Thompson of                         *)
(* src/src/thompson_sampling/thompson_sampling.py).                        *)
(*                                                                         *)
(* Numbers.  Every real of the program (probabilities, damping factors,    *)
(* prior pseudo-counts, posterior samples, the optimistic floor) is an     *)
(* integer count of millionths, so that 1.0 is ONE and the default floor   *)
(* 1.e-6 is 1.  Sums and differences are then exact.                       *)
(*                                                                         *)
(* Indices.  Python's bandit k and step t are 0-based; the arrays here are *)
(* 1-based, so rewards[k + 1][t + 1] is the program's rewards[k, t].  The  *)
(* variable t is the program's loop variable (the number of completed      *)
(* iterations) and bandit is the 1-based index of the chosen bandit.       *)
(*                                                                         *)
(* Arguments that are sequences are numpy arrays, as the docstring asks.   *)
(*                                                                         *)
(* Randomness.  np.random is a seeded generator: its outputs are a fixed   *)
(* function of the position in its stream.  The stream is revealed as it   *)
(* is consumed (betas, unifs) and the caller seeds the generator the same  *)
(* way before every call of run_experiment, so the first call sees every   *)
(* sequence of outcomes and each later call sees the same sequence again.  *)
(***************************************************************************)
EXTENDS Integers, Sequences, FiniteSets

VARIABLES
    args,              \* the arguments given to Thompson(...)
    pc,                \* "start", "config_error", "idle", "loop", "sampled", "chosen"
    outcome,           \* how the last call of run_experiment ended: "none", "ok", "error"
    cfg,               \* the configuration attributes of the instance (self.n_bandits, ...)
    rewards, penalties, choices, cumsum_rewards, cumsum_penalties,
    total_rewards, regret,          \* the run-state attributes of the instance
    t,                 \* run_experiment: the loop variable
    a_params, b_params, raw, thetas, \* sampling: Beta parameters, samples, floored samples
    bandit, reward,    \* run_experiment: locals
    betas, unifs,      \* the generator's stream revealed so far, one entry per step
    prev               \* the caller's copy of the results of the last completed run

vars == <<args, pc, outcome, cfg, rewards, penalties, choices, cumsum_rewards,
          cumsum_penalties, total_rewards, regret, t, a_params, b_params, raw,
          thetas, bandit, reward, betas, unifs, prev>>

---------------------------------------------------------------------------
(* Values *)

\* Python's None for an optional argument or an attribute not yet set; a given
\* optional argument v is <<v>>.  (An instance has at least one bandit and the
\* inputs configure no run of 0 steps, so no array of the program is <<>>.)
None == <<>>

Some(v) == <<v>>

Val(o) == o[1]

ONE == 1000000

HALF == ONE \div 2

DefaultSteps == 1000

DefaultThreshold == 1

MaxSteps == 2

Min(x, y) == IF x <= y THEN x ELSE y

Max(x, y) == IF x >= y THEN x ELSE y

RECURSIVE SeqSum(_)
SeqSum(s) == IF Len(s) = 0 THEN 0 ELSE SeqSum(SubSeq(s, 1, Len(s) - 1)) + s[Len(s)]

SeqMax(s) == CHOOSE x \in {s[i] : i \in 1..Len(s)} : \A i \in 1..Len(s) : s[i] <= x

Zeros(n, m) == [k \in 1..n |-> [j \in 1..m |-> 0]]

ZerosVec(m) == [j \in 1..m |-> 0]

OnesLike(s) == [i \in 1..Len(s) |-> ONE]

---------------------------------------------------------------------------
(* The inputs: constructor arguments and random outcomes *)

ProbArgs == {<<HALF>>, <<HALF, ONE>>, <<HALF, HALF>>, <<HALF, ONE + HALF>>,
             <<ONE, HALF, ONE>>, <<>>}

\* steps is always given (the default of DefaultSteps iterations is beyond the
\* bound); -1 is the input that is not a positive integer.
StepArgs == {Some(s) : s \in {-1} \cup 1..MaxSteps}

DampingArgs == {None, Some(HALF), Some(0 - HALF)}

InitArgs(n) == {None,
                Some([i \in 1..n |-> 0]),
                Some([i \in 1..n |-> 0 - HALF]),
                Some([i \in 1..n |-> 0 - 2 * ONE]),
                Some([i \in 1..(n - 1) |-> ONE])}

\* optimistic is "None", a bool ("True", "False") or something else ("yes").
OptimisticArgs == {"None", "True", "False", "yes"}

ThresholdArgs == {None, Some(HALF), Some(ONE)}

\* The optional arguments come in five groups; the inputs give at most one
\* group at a time (steps and success_probs are always given).
Given(a) ==
    (IF a.alpha_damping # None THEN 1 ELSE 0)
  + (IF a.beta_damping # None THEN 1 ELSE 0)
  + (IF a.alpha_init # None THEN 1 ELSE 0)
  + (IF a.beta_init # None THEN 1 ELSE 0)
  + (IF a.optimistic # "None" \/ a.optimistic_threshold # None THEN 1 ELSE 0)

ArgSets ==
    UNION { [success_probs : {p}, steps : StepArgs,
             alpha_damping : DampingArgs, beta_damping : DampingArgs,
             alpha_init : InitArgs(Len(p)), beta_init : InitArgs(Len(p)),
             optimistic : OptimisticArgs,
             optimistic_threshold : ThresholdArgs] : p \in ProbArgs }

Inputs == {a \in ArgSets : Given(a) <= 1
                           /\ (a.optimistic = "None" => a.optimistic_threshold = None)}

\* Posterior samples: 0 stands for a draw below the default floor.
ThetaVals == {0, ONE - HALF \div 2}

\* The uniform variate behind a Bernoulli draw.
UnifVals == {HALF \div 2, ONE - HALF \div 2}

---------------------------------------------------------------------------
(* __init__ *)

IsBool(x) == x \in {"True", "False"}

\* The exception __init__ raises on these arguments, or None.
InitRaises(a) ==
    IF Len(a.success_probs) = 0 THEN "ValueError"
    ELSE IF a.optimistic # "None" /\ ~IsBool(a.optimistic) THEN "AssertionError"
    ELSE "None"

\* The configuration attributes __init__ sets when it does not raise.
InitConfig(a) ==
    [n_bandits |-> Len(a.success_probs),
     success_probs |-> a.success_probs,
     max_prob |-> SeqMax(a.success_probs),
     steps |-> IF a.steps = None THEN DefaultSteps ELSE Val(a.steps),
     alpha_damping |-> IF a.alpha_damping = None THEN ONE ELSE Val(a.alpha_damping),
     beta_damping |-> IF a.beta_damping = None THEN ONE ELSE Val(a.beta_damping),
     alpha_init |-> IF a.alpha_init = None THEN OnesLike(a.success_probs)
                    ELSE Val(a.alpha_init),
     beta_init |-> IF a.beta_init = None THEN OnesLike(a.success_probs)
                   ELSE Val(a.beta_init),
     optimistic |-> a.optimistic = "True",
     \* the attribute is not set at all (None here) when optimistic is not given
     optimistic_threshold |->
         IF a.optimistic = "None" THEN None
         ELSE IF a.optimistic_threshold = None THEN Some(DefaultThreshold)
         ELSE a.optimistic_threshold]

Init ==
    /\ args \in Inputs
    /\ pc = "start"
    /\ outcome = "none"
    /\ cfg = None
    /\ rewards = None /\ penalties = None /\ choices = None
    /\ cumsum_rewards = None /\ cumsum_penalties = None
    /\ total_rewards = None /\ regret = None
    /\ t = 0
    /\ a_params = <<>> /\ b_params = <<>> /\ raw = <<>> /\ thetas = <<>>
    /\ bandit = 0 /\ reward = 0
    /\ betas = <<>> /\ unifs = <<>>
    /\ prev = None

Construct ==
    /\ pc = "start"
    /\ IF InitRaises(args) # "None"
       THEN /\ pc' = "config_error"
            /\ UNCHANGED cfg
       ELSE /\ pc' = "idle"
            /\ cfg' = InitConfig(args)
    /\ UNCHANGED <<args, outcome, rewards, penalties, choices, cumsum_rewards,
                   cumsum_penalties, total_rewards, regret, t, a_params, b_params,
                   raw, thetas, bandit, reward, betas, unifs, prev>>

---------------------------------------------------------------------------
(* draw_bandit *)

\* np.random.binomial(1, p) raises ValueError unless 0 <= p <= 1.
BinomialRaises(p) == p < 0 \/ p > ONE

\* The Bernoulli draw behind the uniform variate u.
Binomial(p, u) == IF u < p THEN 1 ELSE 0

\* Mutant of DrawRegret: the difference taken the wrong way round.
DrawRegretReversed(k) == cfg.success_probs[k] - cfg.max_prob

DrawRegret(k) == cfg.max_prob - cfg.success_probs[k]

---------------------------------------------------------------------------
(* sampling *)

\* zip stops at the shortest of its four arguments.
ZipLen == Min(Min(Len(cfg.alpha_init), Len(rewards)),
              Min(Len(cfg.beta_init), Len(penalties)))

PosteriorA(i) == ONE + cfg.alpha_init[i] + SeqSum(rewards[i])

PosteriorB(i) == ONE + cfg.beta_init[i] + SeqSum(penalties[i])

\* np.random.beta(a, b) raises ValueError unless a > 0 and b > 0.
BetaRaises == \E i \in 1..ZipLen : PosteriorA(i) <= 0 \/ PosteriorB(i) <= 0

\* Mutant of Floored: min in place of max.
FlooredByMin(r) ==
    IF cfg.optimistic
    THEN [i \in 1..Len(r) |-> Min(r[i], Val(cfg.optimistic_threshold))]
    ELSE r

Floored(r) ==
    IF cfg.optimistic
    THEN [i \in 1..Len(r) |-> Max(r[i], Val(cfg.optimistic_threshold))]
    ELSE r

\* np.argmax: the first index of the maximum.
Argmax(s) ==
    CHOOSE i \in 1..Len(s) :
        /\ \A j \in 1..Len(s) : s[j] <= s[i]
        /\ \A j \in 1..(i - 1) : s[j] < s[i]

---------------------------------------------------------------------------
(* run_experiment *)

\* Mutant of ResetRewards: an earlier run's rewards are kept.
KeepRewards == IF rewards = None THEN Zeros(cfg.n_bandits, cfg.steps) ELSE rewards

ResetRewards == Zeros(cfg.n_bandits, cfg.steps)

\* Mutant of ResetPenalties: an earlier run's penalties are kept.
KeepPenalties == IF penalties = None THEN Zeros(cfg.n_bandits, cfg.steps) ELSE penalties

ResetPenalties == Zeros(cfg.n_bandits, cfg.steps)

ResetChoices == Zeros(cfg.n_bandits, cfg.steps)

ResetRegret == ZerosVec(cfg.steps)

\* Mutant of RecordChoice: choices[bandit] = 1, the step index forgotten.
RecordChoiceRow(c, k, j) == [c EXCEPT ![k] = [x \in 1..Len(@) |-> 1]]

RecordChoice(c, k, j) == [c EXCEPT ![k][j] = 1]

\* Mutant of UpdateRewards: the increment is 1, not alpha_damping.
UpdateRewardsUndamped(r, k, j, rw) ==
    IF rw = 1 THEN [r EXCEPT ![k][j] = @ + ONE] ELSE r

\* rewards[bandit, t] += 1 * alpha_damping when the reward is 1
UpdateRewards(r, k, j, rw) ==
    IF rw = 1 THEN [r EXCEPT ![k][j] = @ + 1 * cfg.alpha_damping] ELSE r

\* penalties[bandit, t] += 1 * beta_damping otherwise
UpdatePenalties(q, k, j, rw) ==
    IF rw = 1 THEN q ELSE [q EXCEPT ![k][j] = @ + 1 * cfg.beta_damping]

\* cumsum along one row: the running sum, entry by entry.
RECURSIVE CumsumRow(_)
CumsumRow(row) ==
    IF Len(row) = 0 THEN <<>>
    ELSE LET c == CumsumRow(SubSeq(row, 1, Len(row) - 1))
         IN  Append(c, (IF Len(c) = 0 THEN 0 ELSE c[Len(c)]) + row[Len(row)])

\* Mutant of Cumsum: the running sum taken along the bandit axis.
CumsumAxis0(m) ==
    [k \in 1..Len(m) |-> [j \in 1..Len(m[k]) |->
        SeqSum([i \in 1..k |-> m[i][j]])]]

\* m.cumsum(axis=1)
Cumsum(m) == [k \in 1..Len(m) |-> CumsumRow(m[k])]

\* m.sum(axis=0): one sum per column.
ColumnSums(m) ==
    [j \in 1..Len(m[1]) |-> SeqSum([k \in 1..Len(m) |-> m[k][j]])]

Results == [rewards |-> rewards, penalties |-> penalties,
            choices |-> choices, regret |-> regret]

NoLocals ==
    /\ t' = 0 /\ bandit' = 0 /\ reward' = 0
    /\ a_params' = <<>> /\ b_params' = <<>> /\ raw' = <<>> /\ thetas' = <<>>

\* An exception leaves run_experiment: the call ends, the attributes stay.
Raise ==
    /\ pc' = "idle"
    /\ outcome' = "error"
    /\ NoLocals

\* The call of run_experiment and its resets (np.zeros raises ValueError on a
\* negative dimension, before anything is assigned).
RunExperiment ==
    /\ pc = "idle"
    /\ IF cfg.steps < 0
       THEN /\ Raise
            /\ UNCHANGED <<rewards, penalties, choices, total_rewards, regret, prev>>
       ELSE /\ rewards' = ResetRewards
            /\ penalties' = ResetPenalties
            /\ choices' = ResetChoices
            /\ total_rewards' = ZerosVec(cfg.steps)
            /\ regret' = ResetRegret
            /\ prev' = IF outcome = "ok" THEN Some(Results) ELSE prev
            /\ pc' = "loop"
            /\ outcome' = "none"
            /\ NoLocals
    /\ UNCHANGED <<args, cfg, cumsum_rewards, cumsum_penalties, betas, unifs>>

\* bandit = self.sampling(), up to the samples and their floor.
Sampling ==
    /\ pc = "loop"
    /\ t < cfg.steps
    /\ IF BetaRaises
       THEN /\ Raise
            /\ UNCHANGED betas
       ELSE \E r \in [1..ZipLen -> ThetaVals] :
            /\ t < Len(betas) => r = betas[t + 1]
            /\ betas' = IF t < Len(betas) THEN betas ELSE Append(betas, r)
            /\ a_params' = [i \in 1..ZipLen |-> PosteriorA(i)]
            /\ b_params' = [i \in 1..ZipLen |-> PosteriorB(i)]
            /\ raw' = r
            /\ thetas' = Floored(r)
            /\ pc' = "sampled"
            /\ UNCHANGED <<outcome, t, bandit, reward>>
    /\ UNCHANGED <<args, cfg, rewards, penalties, choices, cumsum_rewards,
                   cumsum_penalties, total_rewards, regret, unifs, prev>>

\* k = np.argmax(thetas) (ValueError on an empty list); choices[bandit, t] = 1.
Choose ==
    /\ pc = "sampled"
    /\ IF Len(thetas) = 0
       THEN /\ Raise
            /\ UNCHANGED choices
       ELSE /\ bandit' = Argmax(thetas)
            /\ choices' = RecordChoice(choices, Argmax(thetas), t + 1)
            /\ a_params' = <<>> /\ b_params' = <<>> /\ raw' = <<>> /\ thetas' = <<>>
            /\ pc' = "chosen"
            /\ UNCHANGED <<outcome, t, reward>>
    /\ UNCHANGED <<args, cfg, rewards, penalties, cumsum_rewards, cumsum_penalties,
                   total_rewards, regret, betas, unifs, prev>>

\* reward, regret = self.draw_bandit(bandit), the update and regret[t] = regret.
Draw ==
    /\ pc = "chosen"
    /\ IF BinomialRaises(cfg.success_probs[bandit])
       THEN /\ Raise
            /\ UNCHANGED <<rewards, penalties, regret, unifs>>
       ELSE \E u \in UnifVals :
            /\ t < Len(unifs) => u = unifs[t + 1]
            /\ unifs' = IF t < Len(unifs) THEN unifs ELSE Append(unifs, u)
            /\ LET rw == Binomial(cfg.success_probs[bandit], u)
               IN  /\ reward' = rw
                   /\ rewards' = UpdateRewards(rewards, bandit, t + 1, rw)
                   /\ penalties' = UpdatePenalties(penalties, bandit, t + 1, rw)
            /\ regret' = [regret EXCEPT ![t + 1] = DrawRegret(bandit)]
            /\ t' = t + 1
            /\ pc' = "loop"
            /\ UNCHANGED <<outcome, bandit, a_params, b_params, raw, thetas>>
    /\ UNCHANGED <<args, cfg, choices, cumsum_rewards, cumsum_penalties,
                   total_rewards, betas, prev>>

\* After the loop: the cumulative sums; run_experiment returns.
Finish ==
    /\ pc = "loop"
    /\ t >= cfg.steps
    /\ cumsum_rewards' = Cumsum(rewards)
    /\ cumsum_penalties' = Cumsum(penalties)
    /\ total_rewards' = ColumnSums(Cumsum(rewards))
    /\ pc' = "idle"
    /\ outcome' = "ok"
    /\ NoLocals
    /\ UNCHANGED <<args, cfg, rewards, penalties, choices, regret, betas, unifs, prev>>

Next ==
    \/ Construct
    \/ RunExperiment
    \/ Sampling
    \/ Choose
    \/ Draw
    \/ Finish

Spec == Init /\ [][Next]_vars

---------------------------------------------------------------------------
(* Vocabulary of the properties *)

Bandits == 1..cfg.n_bandits

Steps == 1..cfg.steps

\* run_experiment has returned normally.
Done == pc = "idle" /\ outcome = "ok"

\* The constraints on the constructor's arguments.
InUnit(x) == 0 <= x /\ x <= ONE

ValidInit(o, n) ==
    o = None \/ (Len(Val(o)) = n /\ \A i \in 1..n : Val(o)[i] >= 0)

ValidArgs(a) ==
    /\ Len(a.success_probs) >= 1
    /\ \A i \in 1..Len(a.success_probs) : InUnit(a.success_probs[i])
    /\ a.steps = None \/ Val(a.steps) > 0
    /\ a.alpha_damping = None \/ InUnit(Val(a.alpha_damping))
    /\ a.beta_damping = None \/ InUnit(Val(a.beta_damping))
    /\ ValidInit(a.alpha_init, Len(a.success_probs))
    /\ ValidInit(a.beta_init, Len(a.success_probs))
    /\ a.optimistic \in {"None", "True", "False"}
    /\ (a.optimistic = "True" /\ a.optimistic_threshold # None)
           => (0 <= Val(a.optimistic_threshold) /\ Val(a.optimistic_threshold) < ONE)

\* The sum of f[i] over the indices i of S.
RECURSIVE SumOver(_, _)
SumOver(f, S) ==
    IF S = {} THEN 0
    ELSE LET i == CHOOSE x \in S : TRUE IN f[i] + SumOver(f, S \ {i})

Chosen(j) == {k \in Bandits : choices[k][j] = 1}

---------------------------------------------------------------------------
(* C1 *)

\* C1: for a valid configuration, after run_experiment() returns, every column
\* choices[:, t] sums to 1: one bandit has a 1 there and every other a 0.
C1_OneChoicePerStep ==
    (Done /\ ValidArgs(args)) =>
        \A j \in Steps :
            /\ SumOver([k \in Bandits |-> choices[k][j]], Bandits) = 1
            /\ Cardinality(Chosen(j)) = 1
            /\ \A k \in Bandits \ Chosen(j) : choices[k][j] = 0

C1_Witness ==
    /\ Done /\ ValidArgs(args)
    /\ cfg.n_bandits >= 2 /\ cfg.steps >= 2
    /\ Chosen(1) # Chosen(2)

(* C2 *)

\* C2: construction fails closed: on arguments that violate a constraint the
\* constructor ends in a configuration error and yields no instance.
C2_FailsClosed ==
    (pc # "start" /\ ~ValidArgs(args)) => pc = "config_error"

(* C3 *)

\* C3: after run_experiment(), regret[t] = max_prob - success_probs[k_t] for the
\* bandit k_t chosen at t, so it is >= 0 and is 0 exactly when that bandit has
\* the maximal probability; with one bandit it is chosen at every step and the
\* regret is 0 throughout.
C3_Regret ==
    Done =>
        \A j \in Steps :
            /\ Chosen(j) # {}
            /\ \A k \in Chosen(j) :
                  /\ regret[j] = cfg.max_prob - cfg.success_probs[k]
                  /\ regret[j] >= 0
                  /\ regret[j] = 0 <=> cfg.success_probs[k] = cfg.max_prob
            /\ cfg.n_bandits = 1 => (choices[1][j] = 1 /\ regret[j] = 0)

C3_Witness ==
    /\ Done /\ cfg.n_bandits >= 2 /\ cfg.steps >= 2
    /\ regret[1] > 0 /\ regret[2] = 0

(* C4 *)

\* C4: a further run_experiment() fed the same random outcomes as the run
\* before it ends with the rewards, penalties, choices and regret of that run.
C4_RerunSameResults ==
    (Done /\ prev # None) => Results = Val(prev)

C4_Witness ==
    /\ Done /\ prev # None
    /\ cfg.steps >= 2
    /\ \E k \in Bandits : SeqSum(rewards[k]) > 0
    /\ \E k \in Bandits : SeqSum(penalties[k]) > 0

(* C5 *)

C6_CumsumNonDecreasing ==
    Done =>
        \A k \in Bandits : \A j \in 1..(cfg.steps - 1) :
            /\ cumsum_rewards[k][j] <= cumsum_rewards[k][j + 1]
            /\ cumsum_penalties[k][j] <= cumsum_penalties[k][j + 1]

(* C7 *)

\* C7: after run_experiment(), total_rewards[t] is the sum over the bandits of
\* cumsum_rewards[k][t], and cumsum_rewards[k][t] is the sum of rewards[k][s]
\* for s = 0..t.
C7_TotalRewards ==
    Done =>
        \A j \in Steps :
            /\ total_rewards[j] =
                  SumOver([k \in Bandits |-> cumsum_rewards[k][j]], Bandits)
            /\ \A k \in Bandits :
                  cumsum_rewards[k][j] = SumOver(rewards[k], 1..j)

C7_Witness ==
    /\ Done /\ cfg.n_bandits >= 2 /\ cfg.steps >= 2
    /\ rewards[1][1] > 0 /\ rewards[2][2] > 0

(* C8 *)

Unrun ==
    /\ rewards = None /\ penalties = None /\ choices = None
    /\ cumsum_rewards = None /\ cumsum_penalties = None
    /\ total_rewards = None /\ regret = None

IsMatrix(m) ==
    Len(m) = cfg.n_bandits /\ \A k \in Bandits : Len(m[k]) = cfg.steps

Completed ==
    /\ IsMatrix(rewards) /\ IsMatrix(penalties) /\ IsMatrix(choices)
    /\ IsMatrix(cumsum_rewards) /\ IsMatrix(cumsum_penalties)
    /\ Len(total_rewards) = cfg.steps /\ Len(regret) = cfg.steps
    /\ \A k \in Bandits : \A j \in Steps :
          /\ cumsum_rewards[k][j] = SumOver(rewards[k], 1..j)
          /\ cumsum_penalties[k][j] = SumOver(penalties[k], 1..j)
    /\ \A j \in Steps :
          /\ total_rewards[j] =
                SumOver([k \in Bandits |-> cumsum_rewards[k][j]], Bandits)
          /\ Cardinality(Chosen(j)) = 1

\* C8: whenever a caller can observe the experiment (after construction and
\* after any run_experiment() call, returned or raised) it is either unrun,
\* with all seven run-state attributes unset, or completed, with all of them
\* populated for the configured steps and mutually consistent.
C8_UnrunOrCompleted ==
    pc = "idle" => (Unrun \/ Completed)

(* C9 *)

\* What one iteration of the loop (from the choice to the next loop test) does.
StepEffect ==
    (pc = "chosen" /\ pc' = "loop") =>
        /\ t' = t + 1
        /\ reward' = 1 =>
              /\ rewards'[bandit][t + 1] = cfg.alpha_damping
              /\ penalties'[bandit][t + 1] = 0
        /\ reward' # 1 =>
              /\ penalties'[bandit][t + 1] = cfg.beta_damping
              /\ rewards'[bandit][t + 1] = 0
        /\ \A k \in Bandits : \A j \in Steps :
              (k # bandit \/ j # t + 1) =>
                  /\ rewards'[k][j] = rewards[k][j]
                  /\ penalties'[k][j] = penalties[k][j]
        /\ \A k \in Bandits \ {bandit} :
              rewards'[k][t + 1] = 0 /\ penalties'[k][t + 1] = 0

OnlyWhereChosen ==
    Done =>
        \A k \in Bandits : \A j \in Steps :
            /\ (rewards[k][j] # 0 \/ penalties[k][j] # 0) => choices[k][j] = 1
            /\ rewards[k][j] = 0 \/ penalties[k][j] = 0

\* C9: at step t with chosen bandit k exactly one update happens: on reward 1
\* rewards[k][t] becomes alpha_damping and penalties[k][t] stays 0, otherwise
\* penalties[k][t] becomes beta_damping and rewards[k][t] stays 0; no other
\* entry changes; so after the run an entry is non-zero only where the bandit
\* was chosen, and never in both arrays.
C9_OneUpdatePerStep == [][StepEffect /\ OnlyWhereChosen']_vars

C9_Witness ==
    /\ pc = "loop" /\ t = 2 /\ cfg.n_bandits >= 2
    /\ cfg.alpha_damping = HALF
    /\ \E k \in Bandits : rewards[k][1] = HALF
    /\ \E k \in Bandits : penalties[k][2] = ONE

(* C10 *)

\* C10: the Beta parameters sampling() uses at step t are
\* a_k = 1 + alpha_init[k] + sum of rewards[k][s] over the elapsed steps s < t
\* and b_k likewise from beta_init and penalties (1 + alpha_init[k] and
\* 1 + beta_init[k] at t = 0); for a valid configuration there is one pair per
\* bandit and both are >= 1.
C10_PosteriorParameters ==
    pc = "sampled" =>
        /\ Len(a_params) = Len(b_params)
        /\ \A i \in 1..Len(a_params) :
              /\ a_params[i] = ONE + cfg.alpha_init[i] + SumOver(rewards[i], 1..t)
              /\ b_params[i] = ONE + cfg.beta_init[i] + SumOver(penalties[i], 1..t)
              /\ t = 0 => /\ a_params[i] = ONE + cfg.alpha_init[i]
                          /\ b_params[i] = ONE + cfg.beta_init[i]
        /\ ValidArgs(args) =>
              /\ Len(a_params) = cfg.n_bandits
              /\ \A i \in 1..Len(a_params) : a_params[i] >= ONE /\ b_params[i] >= ONE

C10_Witness ==
    /\ pc = "sampled" /\ t >= 1 /\ ValidArgs(args) /\ prev # None
    /\ cfg.n_bandits >= 2
    /\ \E i \in 1..Len(a_params) : a_params[i] > ONE + cfg.alpha_init[i]
    /\ \E i \in 1..Len(b_params) : b_params[i] = ONE + cfg.beta_init[i]

===========================================================================
